---- MODULE Spec2Model ----
(***************************************************************************)
(* Model of Relay_Control_One_Ch.py: discovery of USB relay ports, the     *)
(* two-byte relay command, the per-relay ON/OFF display state and the      *)
(* description store kept in relay_descriptions.json.                      *)
(*                                                                         *)
(* Python values are modelled as follows.  A str whose characters the     *)
(* program looks at (a hardware id, a serial number, a description) is a   *)
(* sequence of one-character strings, so that substring search, strip()    *)
(* and the JSON key conversion operate on the characters; a device path,   *)
(* which the program only passes on or tests for emptiness, is a TLA+      *)
(* string.  None is the value None below.  A dict is the sequence of its   *)
(* <<key, value>> items in insertion order, with no key twice.  The JSON   *)
(* file is a record: whether it exists, and the <<key, value>> members of  *)
(* the object written in it, in the order written; a file may name a key   *)
(* twice.                                                                  *)
(***************************************************************************)
EXTENDS Integers, Sequences, FiniteSets, TLC

\* ------------------------------------------------------------- bounds

\* Most serial ports attached to the machine at one time.
MaxAttached == 2

\* Most frames one run of the program hands to the serial line.
MaxFrames == 2

\* ------------------------------------------------------- Python values

None == <<"NoneType">>

PRODUCT_ID == <<"6", "0", "0", "1">>

\* sub in s, for str
Contains(sub, s) ==
    \E i \in 0..(Len(s) - Len(sub)) :
        \A j \in 1..Len(sub) : s[i + j] = sub[j]

Whitespace == {" ", "\n", "\t"}

\* str.strip()
RECURSIVE LStrip(_)
LStrip(s) ==
    IF s # <<>> /\ Head(s) \in Whitespace THEN LStrip(Tail(s)) ELSE s

RECURSIVE RStrip(_)
RStrip(s) ==
    IF s # <<>> /\ s[Len(s)] \in Whitespace
    THEN RStrip(SubSeq(s, 1, Len(s) - 1))
    ELSE s

Strip(s) == RStrip(LStrip(s))

\* ---------------------------------------------------------------- dict

DictKeys(d) == {d[i][1] : i \in 1..Len(d)}

DictGet(d, k) == (CHOOSE i \in 1..Len(d) : d[i][1] = k)

\* d[k]
DictValue(d, k) == d[DictGet(d, k)][2]

\* d[k] = v: an existing key keeps its place
DictSet(d, k, v) ==
    IF k \in DictKeys(d)
    THEN [i \in 1..Len(d) |-> IF d[i][1] = k THEN <<k, v>> ELSE d[i]]
    ELSE Append(d, <<k, v>>)

\* del d[k]
DictDel(d, k) == SelectSeq(d, LAMBDA item : item[1] # k)


\* ---------------------------------------------------------------- json

JsonNull == <<"n", "u", "l", "l">>

\* The member name json.dump writes for a dict key: a str as it is,
\* None as null.
JsonKey(k) == IF k = None THEN JsonNull ELSE k

\* A slip in save_descriptions: the keys dumped without their values.
json_dump_keys(d) == [i \in 1..Len(d) |-> <<JsonKey(d[i][1]), <<>>>>]

\* json.dump(d, f): one member per item, in the dict's order
json_dump(d) == [i \in 1..Len(d) |-> <<JsonKey(d[i][1]), d[i][2]>>]

\* json.load(f): the members are assigned to a dict one after the other,
\* so a later member of the same name replaces the value of an earlier one
RECURSIVE json_load_from(_, _)
json_load_from(d, members) ==
    IF members = <<>>
    THEN d
    ELSE json_load_from(DictSet(d, Head(members)[1], Head(members)[2]),
                        Tail(members))

json_load(members) == json_load_from(<<>>, members)

NoFile == [exists |-> FALSE, members |-> <<>>]

\* load_descriptions: the dict the program holds after reading file f
load_descriptions(f) == IF f.exists THEN json_load(f.members) ELSE <<>>

\* save_descriptions: the file after writing dict d
save_descriptions(d) == [exists |-> TRUE, members |-> json_dump(d)]

\* --------------------------------------------------- the machine's ports

HwidFtdi == <<"0", "4", "0", "3", ":", "6", "0", "0", "1">>
HwidOther == <<"0", "4", "0", "3", ":", "6", "0", "1", "0">>

SerA == <<"A", "1">>
SerB == <<"B", "2">>

\* The serial ports the machine may show: two relay boards that report the
\* same serial number, one that reports none, and a port of another product.
PortUniverse ==
    { [device |-> "COM3", hwid |-> HwidFtdi, serial_number |-> SerA],
      [device |-> "COM4", hwid |-> HwidFtdi, serial_number |-> SerA],
      [device |-> "COM5", hwid |-> HwidFtdi, serial_number |-> None],
      [device |-> "COM6", hwid |-> HwidOther, serial_number |-> SerB] }

Devices == {p.device : p \in PortUniverse}

\* What the user may type into a description box.
RawTexts == { <<" ", "b", "\n">> }

\* comports() results: ports in enumeration order, none twice
PortLists ==
    UNION { { s \in [1..n -> PortUniverse] :
                \A i, j \in 1..n : i # j => s[i] # s[j] } : n \in 0..MaxAttached }

\* ------------------------------------------------------------ discovery

\* find_relay_ports over the ports still to visit
RECURSIVE find_relay_ports_from(_, _)
find_relay_ports_from(relays, ports) ==
    IF ports = <<>>
    THEN relays
    ELSE find_relay_ports_from(
             IF Contains(PRODUCT_ID, Head(ports).hwid)
             THEN DictSet(relays, Head(ports).serial_number, Head(ports).device)
             ELSE relays,
             Tail(ports))

\* A slip in find_relay_ports: a serial number already seen is skipped.
RECURSIVE find_relay_ports_first_from(_, _)
find_relay_ports_first_from(relays, ports) ==
    IF ports = <<>>
    THEN relays
    ELSE find_relay_ports_first_from(
             IF /\ Contains(PRODUCT_ID, Head(ports).hwid)
                /\ Head(ports).serial_number \notin DictKeys(relays)
             THEN DictSet(relays, Head(ports).serial_number, Head(ports).device)
             ELSE relays,
             Tail(ports))

find_relay_ports_first(ports) == find_relay_ports_first_from(<<>>, ports)

find_relay_ports(ports) == find_relay_ports_from(<<>>, ports)

\* ports[0] if ports else ""
FirstPort(ports) == IF ports # <<>> THEN ports[1].device ELSE ""


\* ---------------------------------------------------------------- state

VARIABLES
    osPorts,              \* what comports() returns now, in its order
    file,                 \* relay_descriptions.json
    relay_ports,          \* self.relay_ports: dict serial number -> device
    relay_states,         \* self.relay_states[sn]
    status_circles,       \* fill colour of the circle of row sn
    relay_frames,         \* text of the first child (the button) of row sn
    description_boxes,    \* content of the text box of row sn
    relay_descriptions,   \* self.relay_descriptions: dict
    selected_com_port,    \* self.selected_com_port
    wire,                 \* bytes handed to ser.write by this run, in order
    open_handles,         \* serial port handles now open
    io,                   \* the latest handler's port calls and dialogs
    lastOp                \* the latest handler, and the row before a toggle

vars == <<osPorts, file, relay_ports, relay_states, status_circles,
          relay_frames, description_boxes, relay_descriptions,
          selected_com_port, wire, open_handles, io, lastOp>>

app == <<relay_ports, relay_states, status_circles, relay_frames,
         description_boxes, relay_descriptions, selected_com_port>>

Rows == DictKeys(relay_ports)

NotToggle(op) ==
    [op |-> op, sn |-> None, state |-> FALSE, fill |-> "red", text |-> "OFF"]

\* ------------------------------------------------------------- commands

\* A slip in the frame: the two payload bytes exchanged between ON and OFF.
CommandFrameInverted(state) == IF state THEN <<255, 0>> ELSE <<255, 1>>

\* The frame of line 21.
CommandFrame(state) == IF state THEN <<255, 1>> ELSE <<255, 0>>

\* messagebox.showerror / showinfo
ShowDialog(w, what) == [w EXCEPT !.events = Append(@, what)]

\* serial.Serial(port, 9600, timeout=1) succeeding: a handle is open
SerialOpen(w) ==
    [w EXCEPT !.handles = @ + 1, !.events = Append(@, "open")]

\* ser.write(data): the bytes are handed to the port; the call may raise
SerialWrite(w, data, ok) ==
    [w EXCEPT !.wire = @ \o data,
              !.events = Append(@, IF ok THEN "write" ELSE "write_raised")]

\* leaving the with block, by its end or by an exception
SerialClose(w) ==
    [w EXCEPT !.handles = @ - 1, !.events = Append(@, "close")]

\* A slip in send_command: the port is closed only when the write returned,
\* as with open and close written out instead of a with block.
send_command_leaky(w, state, openOk, writeOk) ==
    IF ~openOk
    THEN ShowDialog([w EXCEPT !.events = Append(@, "open_raised")],
                    "showerror_send")
    ELSE LET written == SerialWrite(SerialOpen(w), CommandFrame(state), writeOk)
         IN  IF writeOk
             THEN SerialClose(written)
             ELSE ShowDialog(written, "showerror_send")

\* send_command(port, state) in world w = [wire, handles, events]; openOk
\* and writeOk say whether the constructor and the write return normally.
send_command(w, state, openOk, writeOk) ==
    IF ~openOk
    THEN ShowDialog([w EXCEPT !.events = Append(@, "open_raised")],
                    "showerror_send")
    ELSE LET written == SerialWrite(SerialOpen(w), CommandFrame(state), writeOk)
         IN  IF writeOk
             THEN SerialClose(written)
             ELSE ShowDialog(SerialClose(written), "showerror_send")

\* Whether serial.Serial(port) can succeed: only on a device that is there.
CanOpen(port) == \E i \in 1..Len(osPorts) : osPorts[i].device = port

\* ---------------------------------------------------------- construction

\* create_ui, lines 83-91: the row of sn
InitialBox(descriptions, sn) ==
    IF sn \in DictKeys(descriptions) THEN DictValue(descriptions, sn) ELSE <<>>

\* __init__: the object built from the machine's ports and the file
Construct(ports, f) ==
    LET relays == find_relay_ports(ports)
        descriptions == load_descriptions(f)
        rows == DictKeys(relays)
    IN  /\ relay_ports' = relays
        /\ relay_descriptions' = descriptions
        /\ selected_com_port' = FirstPort(ports)
        /\ relay_states' = [sn \in rows |-> FALSE]
        /\ status_circles' = [sn \in rows |-> "red"]
        /\ relay_frames' = [sn \in rows |-> "OFF"]
        /\ description_boxes' = [sn \in rows |-> InitialBox(descriptions, sn)]

Init ==
    /\ osPorts \in PortLists
    /\ file = NoFile
    /\ relay_ports = find_relay_ports(osPorts)
    /\ relay_descriptions = load_descriptions(file)
    /\ selected_com_port = FirstPort(osPorts)
    /\ relay_states = [sn \in Rows |-> FALSE]
    /\ status_circles = [sn \in Rows |-> "red"]
    /\ relay_frames = [sn \in Rows |-> "OFF"]
    /\ description_boxes = [sn \in Rows |-> InitialBox(relay_descriptions, sn)]
    /\ wire = <<>>
    /\ open_handles = 0
    /\ io = <<>>
    /\ lastOp = NotToggle("start")

\* The program is closed and started again (lines 142-145).
Restart ==
    /\ Construct(osPorts, file)
    /\ wire' = <<>>
    /\ open_handles' = 0
    /\ io' = <<>>
    /\ lastOp' = NotToggle("start")
    /\ UNCHANGED <<osPorts, file>>

\* ------------------------------------------------------------- machine

\* A serial port appears in comports(), at any place of its list.
Attach(p, at) ==
    /\ Len(osPorts) < MaxAttached
    /\ \A i \in 1..Len(osPorts) : osPorts[i] # p
    /\ osPorts' = SubSeq(osPorts, 1, at) \o <<p>> \o
                  SubSeq(osPorts, at + 1, Len(osPorts))
    /\ UNCHANGED <<file, app, wire, open_handles, io, lastOp>>

\* A serial port disappears from comports().
Detach(i) ==
    /\ osPorts' = SubSeq(osPorts, 1, i - 1) \o
                  SubSeq(osPorts, i + 1, Len(osPorts))
    /\ UNCHANGED <<file, app, wire, open_handles, io, lastOp>>

\* ------------------------------------------------------------- handlers

\* The user picks or types a port in the combobox (line 63).
SelectPort(d) ==
    /\ selected_com_port' = d
    /\ io' = <<>>
    /\ lastOp' = NotToggle("other")
    /\ UNCHANGED <<osPorts, file, relay_ports, relay_states, status_circles,
                   relay_frames, description_boxes, relay_descriptions,
                   wire, open_handles>>

\* The user replaces the content of the text box of row sn (line 87).
TypeText(sn, t) ==
    /\ description_boxes' = [description_boxes EXCEPT ![sn] = t]
    /\ io' = <<>>
    /\ lastOp' = NotToggle("other")
    /\ UNCHANGED <<osPorts, file, relay_ports, relay_states, status_circles,
                   relay_frames, relay_descriptions, selected_com_port,
                   wire, open_handles>>

refresh_ports ==
    /\ selected_com_port' = FirstPort(osPorts)
    /\ io' = <<"showinfo_refreshed">>
    /\ lastOp' = NotToggle("refresh")
    /\ UNCHANGED <<osPorts, file, relay_ports, relay_states, status_circles,
                   relay_frames, description_boxes, relay_descriptions,
                   wire, open_handles>>

\* A slip in update_ui: the circle is filled green whatever the state.
FillStuck(state) == "green"

\* A slip in toggle_relay: the test of the selected port left out.
BlockedNever(port) == FALSE

\* update_ui: the colour and the label of a row whose state is `state`
Fill(state) == IF state THEN "green" ELSE "red"
ButtonText(state) == IF state THEN "ON" ELSE "OFF"

\* new_state = not current_state
NewState(current_state) == ~current_state

\* whether toggle_relay returns at line 116
Blocked(port) == port = ""

toggle_relay(sn) ==
    LET new_state == NewState(relay_states[sn])
        port == selected_com_port
        w0 == [wire |-> wire, handles |-> open_handles, events |-> <<>>]
    IN  /\ Len(wire) + 2 <= 2 * MaxFrames
        /\ lastOp' = [op |-> "toggle", sn |-> sn, state |-> relay_states[sn],
                      fill |-> status_circles[sn], text |-> relay_frames[sn]]
        /\ IF Blocked(port)
           THEN /\ io' = <<"showerror_select">>
                /\ UNCHANGED <<relay_states, status_circles, relay_frames,
                               wire, open_handles>>
           ELSE \E openOk \in {ok \in BOOLEAN : ok => CanOpen(port)},
                   writeOk \in BOOLEAN :
                    LET w == send_command(w0, new_state, openOk, writeOk)
                    IN  /\ wire' = w.wire
                        /\ open_handles' = w.handles
                        /\ io' = w.events
                        /\ relay_states' = [relay_states EXCEPT ![sn] = new_state]
                        /\ status_circles' =
                               [status_circles EXCEPT ![sn] = Fill(new_state)]
                        /\ relay_frames' =
                               [relay_frames EXCEPT ![sn] = ButtonText(new_state)]
        /\ UNCHANGED <<osPorts, file, relay_ports, description_boxes,
                       relay_descriptions, selected_com_port>>

\* description_boxes[sn].get("1.0", "end").strip(); get() ends in a newline
BoxText(content) == Strip(content \o <<"\n">>)

save_description(sn) ==
    LET descriptions ==
            DictSet(relay_descriptions, sn, BoxText(description_boxes[sn]))
    IN  /\ relay_descriptions' = descriptions
        /\ file' = save_descriptions(descriptions)
        /\ io' = <<"file_written", "showinfo_saved">>
        /\ lastOp' = [NotToggle("save") EXCEPT !.sn = sn]
        /\ UNCHANGED <<osPorts, relay_ports, relay_states, status_circles,
                       relay_frames, description_boxes, selected_com_port,
                       wire, open_handles>>

\* A slip in clear_description: the entry deleted, the file not written.
clear_description_unsaved(sn) ==
    /\ description_boxes' = [description_boxes EXCEPT ![sn] = <<>>]
    /\ relay_descriptions' = DictDel(relay_descriptions, sn)
    /\ io' = <<>>
    /\ lastOp' = [NotToggle("clear") EXCEPT !.sn = sn]
    /\ UNCHANGED <<osPorts, file, relay_ports, relay_states, status_circles,
                   relay_frames, selected_com_port, wire, open_handles>>

clear_description(sn) ==
    /\ description_boxes' = [description_boxes EXCEPT ![sn] = <<>>]
    /\ IF sn \in DictKeys(relay_descriptions)
       THEN /\ relay_descriptions' = DictDel(relay_descriptions, sn)
            /\ file' = save_descriptions(DictDel(relay_descriptions, sn))
            /\ io' = <<"file_written">>
       ELSE /\ io' = <<>>
            /\ UNCHANGED <<relay_descriptions, file>>
    /\ lastOp' = [NotToggle("clear") EXCEPT !.sn = sn]
    /\ UNCHANGED <<osPorts, relay_ports, relay_states, status_circles,
                   relay_frames, selected_com_port, wire, open_handles>>

\* Relay control: the machine's ports come and go, the user selects a port,
\* refreshes and toggles; the program may be restarted.
Next ==
    \/ \E p \in PortUniverse, at \in 0..Len(osPorts) : Attach(p, at)
    \/ \E i \in 1..Len(osPorts) : Detach(i)
    \/ Restart
    \/ \E d \in Devices \cup {""} : SelectPort(d)
    \/ refresh_ports
    \/ \E sn \in Rows : toggle_relay(sn)

Spec == Init /\ [][Next]_vars

\* Runs on a machine whose ports stay as they are: the user edits, saves and
\* clears descriptions, refreshes and toggles (one frame a run is enough
\* here); the program may be restarted.  The file of the first run may be
\* absent or hold a description of the relay SerA, attached or not.
InitFiles ==
    { NoFile, [exists |-> TRUE, members |-> << <<SerA, <<"a">>>> >>] }

InitFixedPorts ==
    /\ osPorts \in PortLists
    /\ file \in InitFiles
    /\ relay_ports = find_relay_ports(osPorts)
    /\ relay_descriptions = load_descriptions(file)
    /\ selected_com_port = FirstPort(osPorts)
    /\ relay_states = [sn \in Rows |-> FALSE]
    /\ status_circles = [sn \in Rows |-> "red"]
    /\ relay_frames = [sn \in Rows |-> "OFF"]
    /\ description_boxes = [sn \in Rows |-> InitialBox(relay_descriptions, sn)]
    /\ wire = <<>>
    /\ open_handles = 0
    /\ io = <<>>
    /\ lastOp = NotToggle("start")

NextFixedPorts ==
    \/ Restart
    \/ refresh_ports
    \/ \E sn \in Rows : wire = <<>> /\ toggle_relay(sn)
    \/ \E sn \in Rows, t \in RawTexts : TypeText(sn, t)
    \/ \E sn \in Rows : save_description(sn)
    \/ \E sn \in Rows : clear_description(sn)

SpecFixedPorts == InitFixedPorts /\ [][NextFixedPorts]_vars

\* ============================================================== claims

\* two mappings are equal: the same keys with the same values, in any order
DictEq(d, e) ==
    /\ DictKeys(d) = DictKeys(e)
    /\ \A k \in DictKeys(d) : DictValue(d, k) = DictValue(e, k)

\* what the latest handler did
Events == {io[i] : i \in 1..Len(io)}

\* ser.write calls of the latest handler
WriteCalls(events) ==
    Len(SelectSeq(events, LAMBDA e : e \in {"write", "write_raised"}))

\* C1: a toggle hands the port at most one frame, and exactly one when it
\* reaches ser.write: 0xFF 0x01 to switch on, 0xFF 0x00 to switch off,
\* appended to what the run wrote before; no other step writes a byte.
C1_OneFramePerSend ==
    [][ /\ \A sn \in Rows :
             toggle_relay(sn) =>
                 /\ WriteCalls(io') <= 1
                 /\ WriteCalls(io') = 1 =>
                        wire' = wire \o (IF relay_states[sn]
                                         THEN <<255, 0>>
                                         ELSE <<255, 1>>)
                 /\ WriteCalls(io') = 0 => wire' = wire
        /\ (~ \E sn \in Rows : toggle_relay(sn)) => wire' \in {wire, <<>>}
      ]_vars

\* Two sends of one run: ON then OFF on the line, the second write raising.
C1_Witness ==
    /\ wire = <<255, 1, 255, 0>>
    /\ io = <<"open", "write_raised", "close", "showerror_send">>

\* C2: after a toggle whose send reported a failure, the row is as it was
\* before the toggle.
C2_FailedSendKeepsState ==
    (lastOp.op = "toggle" /\ "showerror_send" \in Events) =>
        /\ relay_states[lastOp.sn] = lastOp.state
        /\ status_circles[lastOp.sn] = lastOp.fill
        /\ relay_frames[lastOp.sn] = lastOp.text

\* C3: with no port selected a toggle shows the error dialog and does
\* nothing else: no port call, no byte, no row changed.
C3_UnselectedPortBlocks ==
    [][ \A sn \in Rows :
            (toggle_relay(sn) /\ selected_com_port = "") =>
                /\ io' = <<"showerror_select">>
                /\ wire' = wire
                /\ open_handles' = open_handles
                /\ relay_states' = relay_states
                /\ status_circles' = status_circles
                /\ relay_frames' = relay_frames
      ]_vars

\* A relay is shown ON, the port selection is empty, a toggle was blocked.
C3_Witness ==
    /\ lastOp.op = "toggle"
    /\ selected_com_port = ""
    /\ io = <<"showerror_select">>
    /\ \E sn \in Rows : relay_states[sn]

\* C4: between two handlers no serial port handle is open.
C4_NoHandleLeftOpen == open_handles = 0

\* A send whose write raised after the port was opened.
C4_Witness ==
    /\ lastOp.op = "toggle"
    /\ io = <<"open", "write_raised", "close", "showerror_send">>
    /\ open_handles = 0

\* C8: a toggle that directly follows a toggle of the same row puts the
\* row's state, colour and label back to what they were before the first.
C8_DoubleToggleRestores ==
    [][ \A sn \in Rows :
            (lastOp.op = "toggle" /\ lastOp.sn = sn /\ toggle_relay(sn)) =>
                /\ relay_states'[sn] = lastOp.state
                /\ status_circles'[sn] = lastOp.fill
                /\ relay_frames'[sn] = lastOp.text
      ]_vars

\* The only row was switched on and off again by the two sends of the run.
C8_Witness ==
    /\ Cardinality(Rows) = 1
    /\ wire = <<255, 1, 255, 0>>
    /\ lastOp.op = "toggle"
    /\ lastOp.state /\ lastOp.fill = "green" /\ lastOp.text = "ON"
    /\ \A sn \in Rows :
           ~relay_states[sn] /\ status_circles[sn] = "red"
                             /\ relay_frames[sn] = "OFF"

\* C9: a Refresh leaves the relay rows equal to a discovery scan made at
\* that moment, each row with a state.
C9_RefreshRediscovers ==
    [][ refresh_ports =>
            /\ DictEq(relay_ports', find_relay_ports(osPorts))
            /\ DOMAIN relay_states' = DictKeys(find_relay_ports(osPorts))
      ]_vars

\* ---- claims checked where the machine's ports stay as they are, so that
\* ---- osPorts is what comports() returned when the rows were built

Matches(p) == Contains(<<"6", "0", "0", "1">>, p.hwid)

\* the place of the last matching port that reports serial number k
LastReporting(k) ==
    CHOOSE i \in 1..Len(osPorts) :
        /\ Matches(osPorts[i]) /\ osPorts[i].serial_number = k
        /\ \A j \in (i + 1)..Len(osPorts) :
               ~(Matches(osPorts[j]) /\ osPorts[j].serial_number = k)

\* C5 as stated: every port whose hardware id contains 6001 is in the
\* mapping under its serial number with its device path, and no other
\* port's device path is in it.
C5_EveryMatchingPortListed ==
    \A i \in 1..Len(osPorts) :
        IF Matches(osPorts[i])
        THEN /\ osPorts[i].serial_number \in DictKeys(relay_ports)
             /\ DictValue(relay_ports, osPorts[i].serial_number)
                    = osPorts[i].device
        ELSE \A n \in 1..Len(relay_ports) :
                 relay_ports[n][2] # osPorts[i].device

\* C5 amended: the keys are the serial numbers (None among them) that the
\* ports containing 6001 report; each key has the device path of the last
\* such port in enumeration order; no other port's device path is in it.
C5_LastMatchingPortPerSerial ==
    /\ DictKeys(relay_ports) =
           {osPorts[i].serial_number :
                i \in {j \in 1..Len(osPorts) : Matches(osPorts[j])}}
    /\ \A k \in DictKeys(relay_ports) :
           DictValue(relay_ports, k) = osPorts[LastReporting(k)].device
    /\ \A i \in 1..Len(osPorts) :
           ~Matches(osPorts[i]) =>
               \A n \in 1..Len(relay_ports) :
                   relay_ports[n][2] # osPorts[i].device
    /\ Len(relay_ports) = Cardinality(DictKeys(relay_ports))

\* Two boards reporting the same serial number were scanned, COM3 first.
C5_Witness ==
    /\ Len(osPorts) = 2
    /\ osPorts[1].device = "COM3" /\ osPorts[2].device = "COM4"
    /\ relay_ports = << <<SerA, "COM4">> >>

\* C6: after Clear of row k the file, read back, has no entry for k.
C6_ClearedKeyNotInFile ==
    lastOp.op = "clear" =>
        lastOp.sn \notin DictKeys(load_descriptions(file))

\* Clear removed a saved description and wrote a file that keeps another.
C6_Witness ==
    /\ lastOp.op = "clear"
    /\ lastOp.sn = SerA
    /\ io = <<"file_written">>
    /\ file.exists /\ file.members # <<>>

\* C7: reading the file, writing what was read and reading again gives the
\* mapping of the first read; an absent file reads as the empty mapping.
C7_LoadSaveLoad ==
    LET first == load_descriptions(file)
        second == load_descriptions(save_descriptions(first))
    IN  /\ DictEq(second, first)
        /\ ~file.exists => first = <<>>

\* The program started on a file that names a key twice and holds it once.
C7_Witness ==
    /\ lastOp.op = "start"
    /\ file.exists /\ Len(file.members) = 2
    /\ Len(relay_descriptions) = 1
    /\ Len(load_descriptions(file)) = 1

\* the entry of key k in dict d
Entry(d, k) ==
    IF k \in DictKeys(d) THEN <<TRUE, DictValue(d, k)>> ELSE <<FALSE, <<>>>>

\* every key other than k that the description mapping holds has the same
\* entry afterwards, in the mapping and in the file as read back
OthersKept(k) ==
    LET before == load_descriptions(file)
        after == load_descriptions(file')
    IN  \A o \in DictKeys(relay_descriptions) \ {k} :
            /\ Entry(relay_descriptions', o) = Entry(relay_descriptions, o)
            /\ Entry(after, o) = Entry(before, o)

\* C10: Save and Clear of row k change no entry of another key, in memory
\* or in the file; toggle and refresh change neither mapping nor file.
C10_OtherKeysKept ==
    [][ /\ \A sn \in Rows :
             (save_description(sn) \/ clear_description(sn)) => OthersKept(sn)
        /\ (refresh_ports \/ \E sn \in Rows : toggle_relay(sn)) =>
               UNCHANGED <<relay_descriptions, file>>
      ]_vars

====
